---- MODULE Spec2Model ----
(***************************************************************************)
(* Veriform decoder: the bounded pushdown stack of message decoders        *)
(* (rust/src/decoder.rs) and the Verihash sequence hasher                  *)
(* (rust/src/decoder/sequence/hasher.rs).                                  *)
(***************************************************************************)
EXTENDS Integers, Sequences, FiniteSets, TLC

VARIABLES
    stack,            \* Decoder.stack: heapless::Vec<message::Decoder<D>, U16>
    calls,            \* open Decode<M>::decode activations, outermost first
    ret,              \* outcome of the last completed decoder operation
    leaked,           \* TRUE once a nested M::decode has returned an error
    state,            \* Hasher.state: Option<State>
    verihash,         \* Hasher.verihash: the calls issued to the accumulator, in order
    last,             \* the last hash_event call: state before, event, result, commits
    results,          \* the results of the hash_event calls made so far, in order
    progress,         \* the value begun by the last accepted LengthDelimiter, and its chunks
    overflow_checks,  \* build profile: TRUE = arithmetic overflow panics, FALSE = wraps
    cursor,           \* the `input: &mut &[u8]` handed to a typed decode: the bytes not yet read
    typed             \* the last typed decode: requested type and tag, the buffer, the result

decoderVars == <<stack, calls, ret, leaked>>
hasherVars == <<state, verihash, last, results, progress, overflow_checks>>
typedVars == <<cursor, typed>>
vars == <<stack, calls, ret, leaked, state, verihash, last, results, progress, overflow_checks,
          cursor, typed>>

(***************************************************************************)
(* Bounds of the model.                                                    *)
(***************************************************************************)
\* usize::MAX, scaled down: usize values are 0..MaxUsize, arithmetic wraps modulo MaxUsize + 1
MaxUsize == 3
\* longest byte slice carried by one ValueChunk event
MaxChunk == 2
\* number of hash_event calls made on one hasher
MaxEvents == 3

(***************************************************************************)
(* Sequence hasher                                                         *)
(***************************************************************************)
WireType == {"UInt64", "SInt64", "Bytes", "String", "Message", "Sequence"}

Usize == 0..MaxUsize

\* the byte values payloads are drawn from
ByteVals == {255}

\* the byte slices a ValueChunk can carry
ByteSlices == UNION {[1..n -> ByteVals] : n \in 0..MaxChunk}

\* the values UInt64 and SInt64 events are drawn from
U64Vals == {0, 258}

I64Vals == {-1, 2}

\* u64::to_le_bytes / i64::to_le_bytes: the 8 bytes of the two's complement
\* representation, least significant first
RECURSIVE le_bytes(_, _)
le_bytes(value, n) ==
    IF n = 0 THEN <<>> ELSE <<value % 256>> \o le_bytes(value \div 256, n - 1)

to_le_bytes(value) == le_bytes(value, 8)

\* enum State, and the None of Option<State>
Initial == [tag |-> "Initial"]

InProgress(tag, remaining) == [tag |-> tag, remaining |-> remaining]

None == [tag |-> "None"]

\* Event variants
LengthDelimiterEvents ==
    {[kind |-> "LengthDelimiter", wire_type |-> w, length |-> l] :
        w \in WireType, l \in Usize}

FixedEvents ==
    {[kind |-> "UInt64", value |-> v] : v \in U64Vals}
        \cup {[kind |-> "SInt64", value |-> v] : v \in I64Vals}

ValueChunkEvents ==
    {[kind |-> "ValueChunk", wire_type |-> w, bytes |-> b, remaining |-> r] :
        w \in WireType, b \in ByteSlices, r \in Usize}

HeaderEvents == {[kind |-> "Header"]}

\* verihash::Hasher: the accumulator is the log of the calls made on it
dynamically_sized_value(acc, wire_type, length) ==
    Append(acc, [op |-> "dynamically_sized_value", wire_type |-> wire_type,
                 length |-> length])

fixed_size_value(acc, wire_type, bytes) ==
    Append(acc, [op |-> "fixed_size_value", wire_type |-> wire_type, bytes |-> bytes])

input(acc, bytes) == Append(acc, [op |-> "input", bytes |-> bytes])

\* Result<State, Kind> together with the accumulator after the call
Ok(new_state, acc) == [result |-> "Ok", state |-> new_state, verihash |-> acc]

Err(kind, acc) == [result |-> kind, state |-> None, verihash |-> acc]

Panic(acc) == [result |-> "panic", state |-> None, verihash |-> acc]

\* remaining - bytes.len() on usize: overflow panics when overflow checks are
\* compiled in and wraps otherwise
sub_overflows(a, b) == b > a

wrapping_sub(a, b) == (a - b + (MaxUsize + 1)) % (MaxUsize + 1)

\* variant of handle_length_delimiter that installs the state without committing
\* the declared size
handle_length_delimiter_no_commit(self, wire_type, length, acc) ==
    IF self # Initial THEN Err("Hashing", acc)
    ELSE IF wire_type \notin {"Bytes", "String", "Message"} THEN Panic(acc)
    ELSE Ok(InProgress(wire_type, length), acc)

\* variant of handle_length_delimiter that commits the declared size before it
\* looks at the state
handle_length_delimiter_commits_first(self, wire_type, length, acc) ==
    IF self # Initial THEN Err("Hashing", dynamically_sized_value(acc, wire_type, length))
    ELSE IF wire_type \notin {"Bytes", "String", "Message"} THEN Panic(acc)
    ELSE Ok(InProgress(wire_type, length),
            dynamically_sized_value(acc, wire_type, length))

handle_length_delimiter(self, wire_type, length, acc) ==
    IF self # Initial THEN Err("Hashing", acc)
    ELSE IF wire_type \notin {"Bytes", "String", "Message"} THEN Panic(acc)
    ELSE Ok(InProgress(wire_type, length),
            dynamically_sized_value(acc, wire_type, length))

\* variant of handle_fixed_sized_value that commits every value as a UInt64
handle_fixed_sized_value_unsigned(self, value, acc) ==
    IF self # Initial THEN Err("Hashing", acc)
    ELSE IF value.kind \in {"UInt64", "SInt64"}
         THEN Ok(Initial, fixed_size_value(acc, "UInt64", to_le_bytes(value.value)))
    ELSE Panic(acc)

handle_fixed_sized_value(self, value, acc) ==
    IF self # Initial THEN Err("Hashing", acc)
    ELSE IF value.kind = "UInt64"
         THEN Ok(Initial, fixed_size_value(acc, "UInt64", to_le_bytes(value.value)))
    ELSE IF value.kind = "SInt64"
         THEN Ok(Initial, fixed_size_value(acc, "SInt64", to_le_bytes(value.value)))
    ELSE Panic(acc)

\* variant of chunk_absorbed that keeps the variant when remaining reaches zero
chunk_absorbed_stays(self, wire_type, bytes, new_remaining, acc) ==
    IF wire_type # self.tag THEN Err("Hashing", acc)
    ELSE IF sub_overflows(self.remaining, Len(bytes)) /\ overflow_checks THEN Panic(acc)
    ELSE IF wrapping_sub(self.remaining, Len(bytes)) # new_remaining
         THEN Err("Hashing", acc)
    ELSE Ok(InProgress(self.tag, new_remaining), input(acc, bytes))

\* one arm of the match in handle_value_chunk for State::Bytes / State::String:
\* the bytes are absorbed after the new state is computed
chunk_absorbed(self, wire_type, bytes, new_remaining, acc) ==
    IF wire_type # self.tag THEN Err("Hashing", acc)
    ELSE IF sub_overflows(self.remaining, Len(bytes)) /\ overflow_checks THEN Panic(acc)
    ELSE IF wrapping_sub(self.remaining, Len(bytes)) # new_remaining
         THEN Err("Hashing", acc)
    ELSE IF new_remaining = 0 THEN Ok(Initial, input(acc, bytes))
    ELSE Ok(InProgress(self.tag, new_remaining), input(acc, bytes))

\* the State::Message arm: returns before verihash.input(bytes)
chunk_message(self, wire_type, bytes, new_remaining, acc) ==
    IF wire_type # "Message" THEN Err("Hashing", acc)
    ELSE IF sub_overflows(self.remaining, Len(bytes)) /\ overflow_checks THEN Panic(acc)
    ELSE IF wrapping_sub(self.remaining, Len(bytes)) # new_remaining
         THEN Err("Hashing", acc)
    ELSE IF new_remaining = 0 THEN Ok(Initial, acc)
    ELSE Ok(InProgress("Message", new_remaining), acc)

\* variant of handle_value_chunk whose catch-all arm lets the chunk through
handle_value_chunk_lenient(self, wire_type, bytes, new_remaining, acc) ==
    IF self.tag \in {"Bytes", "String"}
    THEN chunk_absorbed(self, wire_type, bytes, new_remaining, acc)
    ELSE IF self.tag = "Message"
    THEN chunk_message(self, wire_type, bytes, new_remaining, acc)
    ELSE Ok(self, acc)

handle_value_chunk(self, wire_type, bytes, new_remaining, acc) ==
    IF self.tag \in {"Bytes", "String"}
    THEN chunk_absorbed(self, wire_type, bytes, new_remaining, acc)
    ELSE IF self.tag = "Message"
    THEN chunk_message(self, wire_type, bytes, new_remaining, acc)
    ELSE Err("Hashing", acc)

\* variant of transition that lets a Header through between values
transition_header_between(self, event, acc) ==
    IF event.kind = "LengthDelimiter"
    THEN handle_length_delimiter(self, event.wire_type, event.length, acc)
    ELSE IF event.kind \in {"UInt64", "SInt64"}
    THEN handle_fixed_sized_value(self, event, acc)
    ELSE IF event.kind = "ValueChunk"
    THEN handle_value_chunk(self, event.wire_type, event.bytes, event.remaining, acc)
    ELSE IF self = Initial THEN Ok(self, acc)
    ELSE Err("Hashing", acc)

\* variant of transition whose catch-all arm skips the event instead of failing
transition_skips_other(self, event, acc) ==
    IF event.kind = "LengthDelimiter"
    THEN handle_length_delimiter(self, event.wire_type, event.length, acc)
    ELSE IF event.kind \in {"UInt64", "SInt64"}
    THEN handle_fixed_sized_value(self, event, acc)
    ELSE IF event.kind = "ValueChunk"
    THEN handle_value_chunk(self, event.wire_type, event.bytes, event.remaining, acc)
    ELSE Ok(self, acc)

transition(self, event, acc) ==
    IF event.kind = "LengthDelimiter"
    THEN handle_length_delimiter(self, event.wire_type, event.length, acc)
    ELSE IF event.kind \in {"UInt64", "SInt64"}
    THEN handle_fixed_sized_value(self, event, acc)
    ELSE IF event.kind = "ValueChunk"
    THEN handle_value_chunk(self, event.wire_type, event.bytes, event.remaining, acc)
    ELSE Err("Hashing", acc)

\* variant of hash_event that reads the state without take(), so that a failed
\* transition leaves the old state in place
hash_event_without_take(self_state, self_verihash, event) ==
    IF self_state # None
    THEN LET r == transition(self_state, event, self_verihash) IN
            IF r.result = "Ok" THEN r ELSE [r EXCEPT !.state = self_state]
    ELSE Err("Failed", self_verihash)

\* Hasher::hash_event: self.state.take() leaves None behind, and only a
\* successful transition installs a state again
hash_event(self_state, self_verihash, event) ==
    IF self_state # None
    THEN transition(self_state, event, self_verihash)
    ELSE Err("Failed", self_verihash)

NoEvent == [kind |-> "none"]

\* no LengthDelimiter has been accepted yet
NoValue == [wire_type |-> "none", length |-> 0, chunks |-> <<>>, mark |-> 0]

\* the record of the value being hashed: an accepted LengthDelimiter begins a value
\* (mark is the length of the accumulator log before it), an accepted ValueChunk
\* adds its bytes to it
Accounted(v, acc, event, result) ==
    IF result # "Ok" THEN v
    ELSE IF event.kind = "LengthDelimiter"
    THEN [wire_type |-> event.wire_type, length |-> event.length, chunks |-> <<>>,
          mark |-> Len(acc)]
    ELSE IF event.kind = "ValueChunk"
    THEN [v EXCEPT !.chunks = Append(@, event.bytes)]
    ELSE v

\* Hasher::new
HasherInit ==
    /\ state = Initial
    /\ verihash = <<>>
    /\ last = [pre |-> Initial, event |-> NoEvent, result |-> "none", commits |-> <<>>]
    /\ results = <<>>
    /\ progress = NoValue
    /\ overflow_checks \in BOOLEAN

\* one hash_event call: the hasher after it, and the record kept of the call
HashEvent(event) ==
    LET r == hash_event(state, verihash, event) IN
        [state |-> r.state,
         verihash |-> r.verihash,
         last |-> [pre |-> state, event |-> event, result |-> r.result,
                   commits |-> SubSeq(r.verihash, Len(verihash) + 1, Len(r.verihash))],
         results |-> Append(results, r.result),
         progress |-> Accounted(progress, verihash, event, r.result)]

HashLengthDelimiter ==
    \E event \in LengthDelimiterEvents :
        /\ Len(results) < MaxEvents
        /\ state' = HashEvent(event).state
        /\ verihash' = HashEvent(event).verihash
        /\ last' = HashEvent(event).last
        /\ results' = HashEvent(event).results
        /\ progress' = HashEvent(event).progress
        /\ UNCHANGED overflow_checks
        /\ UNCHANGED decoderVars /\ UNCHANGED typedVars

HashFixedSizedValue ==
    \E event \in FixedEvents :
        /\ Len(results) < MaxEvents
        /\ state' = HashEvent(event).state
        /\ verihash' = HashEvent(event).verihash
        /\ last' = HashEvent(event).last
        /\ results' = HashEvent(event).results
        /\ progress' = HashEvent(event).progress
        /\ UNCHANGED overflow_checks
        /\ UNCHANGED decoderVars /\ UNCHANGED typedVars

HashValueChunk ==
    \E event \in ValueChunkEvents :
        /\ Len(results) < MaxEvents
        /\ state' = HashEvent(event).state
        /\ verihash' = HashEvent(event).verihash
        /\ last' = HashEvent(event).last
        /\ results' = HashEvent(event).results
        /\ progress' = HashEvent(event).progress
        /\ UNCHANGED overflow_checks
        /\ UNCHANGED decoderVars /\ UNCHANGED typedVars

HashHeader ==
    \E event \in HeaderEvents :
        /\ Len(results) < MaxEvents
        /\ state' = HashEvent(event).state
        /\ verihash' = HashEvent(event).verihash
        /\ last' = HashEvent(event).last
        /\ results' = HashEvent(event).results
        /\ progress' = HashEvent(event).progress
        /\ UNCHANGED overflow_checks
        /\ UNCHANGED decoderVars /\ UNCHANGED typedVars

(***************************************************************************)
(* Decoder stack                                                           *)
(***************************************************************************)
\* capacity of the stack: heapless::consts::U16
U16 == 16

\* message::Decoder::new(): a fresh frame
message_Decoder_new == [frame |-> "message::Decoder"]

\* outcome of a stack operation: its result and the stack it leaves
StackResult(result, s) == [result |-> result, stack |-> s]

\* variant of push that drops the frame silently when the vector is full
push_truncating(s) ==
    IF Len(s) < U16 THEN StackResult("Ok", Append(s, message_Decoder_new))
    ELSE StackResult("Ok", s)

\* Decoder::push: heapless::Vec::push hands the item back when the vector is
\* full, which map_err turns into Error::NestingDepth
push(s) ==
    IF Len(s) < U16 THEN StackResult("Ok", Append(s, message_Decoder_new))
    ELSE StackResult("NestingDepth", s)

\* Decoder::pop: self.stack.pop().unwrap()
pop(s) ==
    IF Len(s) = 0 THEN StackResult("panic", s)
    ELSE StackResult("Ok", SubSeq(s, 1, Len(s) - 1))

\* Decoder::peek: self.stack.last_mut().unwrap()
peek(s) == IF Len(s) = 0 THEN StackResult("panic", s) ELSE StackResult("Ok", s)

\* Decoder::depth
depth == Len(stack)

\* variant of decode_message_enter that discards the result of push
decode_message_enter_unchecked(s, header, region) ==
    IF peek(s).result = "panic" THEN StackResult("panic", s)
    ELSE IF header # "Ok" THEN StackResult(header, s)
    ELSE IF region # "Ok" THEN StackResult(region, s)
    ELSE StackResult("Ok", push(s).stack)

\* Decode<M>::decode up to the call of M::decode: header check, region
\* extraction and push, each returning early on error. `header` and `region` are
\* the results of expect_header and decode_message on the input.
decode_message_enter(s, header, region) ==
    IF peek(s).result = "panic" THEN StackResult("panic", s)
    ELSE IF header # "Ok" THEN StackResult(header, s)
    ELSE IF region # "Ok" THEN StackResult(region, s)
    ELSE push(s)

\* variant of decode_message_leave that returns the message without self.pop()
decode_message_leave_no_pop(s, nested) ==
    IF nested # "Ok" THEN StackResult(nested, s) ELSE StackResult("Ok", s)

\* Decode<M>::decode after M::decode returned `nested`: an error leaves through
\* `?`, success is followed by self.pop()
decode_message_leave(s, nested) ==
    IF nested # "Ok" THEN StackResult(nested, s) ELSE pop(s)

\* what a finished operation is remembered by: its result, the depth before and
\* after it, whether it invoked M::decode, and the results of the header check and
\* of the region extraction it was given
Outcome(op, result, before, after, invoked, header, region) ==
    [op |-> op, result |-> result, before |-> before, after |-> after,
     invoked |-> invoked, header |-> header, region |-> region]

\* Decoder::new / Decoder::default
DecoderInit ==
    /\ stack = <<message_Decoder_new>>
    /\ calls = <<>>
    /\ ret = Outcome("new", "Ok", 0, 1, FALSE, "none", "none")
    /\ leaked = FALSE

\* the client calls push()
Push ==
    /\ calls = <<>>
    /\ LET r == push(stack) IN
        /\ stack' = r.stack
        /\ ret' = Outcome("push", r.result, Len(stack), Len(r.stack), FALSE, "none", "none")
    /\ UNCHANGED calls
    /\ UNCHANGED leaked
    /\ UNCHANGED hasherVars /\ UNCHANGED typedVars

\* the client calls pop()
Pop ==
    /\ calls = <<>>
    /\ LET r == pop(stack) IN
        /\ stack' = r.stack
        /\ ret' = Outcome("pop", r.result, Len(stack), Len(r.stack), FALSE, "none", "none")
    /\ UNCHANGED calls
    /\ UNCHANGED leaked
    /\ UNCHANGED hasherVars /\ UNCHANGED typedVars

\* Decode<M>::decode is called, by the client or by the M::decode routine that is
\* running, and either returns early or enters the nested M::decode
DecodeMessageCall ==
    \E header \in {"Ok", "Err"}, region \in {"Ok", "Err"} :
        LET r == decode_message_enter(stack, header, region) IN
            /\ stack' = r.stack
            /\ IF r.result = "Ok"
               THEN /\ calls' = Append(calls, [before |-> Len(stack), at |-> Len(r.stack)])
                    /\ ret' = Outcome("enter", "Ok", Len(stack), Len(r.stack), TRUE,
                                       header, region)
               ELSE /\ calls' = calls
                    /\ ret' = Outcome("decode", r.result, Len(stack), Len(r.stack), FALSE,
                                       header, region)
            /\ UNCHANGED leaked
            /\ UNCHANGED hasherVars /\ UNCHANGED typedVars

\* the innermost M::decode returns, and the Decode<M>::decode that called it finishes
DecodeMessageReturn ==
    \E nested \in {"Ok", "Err"} :
        /\ calls # <<>>
        /\ LET top == calls[Len(calls)]
               r == decode_message_leave(stack, nested) IN
            /\ stack' = r.stack
            /\ calls' = SubSeq(calls, 1, Len(calls) - 1)
            /\ ret' = Outcome("decode", r.result, top.before, Len(r.stack), TRUE,
                               "Ok", "Ok")
                        @@ [at |-> top.at, inner |-> Len(stack)]
            /\ leaked' = (leaked \/ nested # "Ok")
        /\ UNCHANGED hasherVars /\ UNCHANGED typedVars

(***************************************************************************)
(* Typed scalar decodes (rust/src/decoder.rs, Decode<u64>, Decode<i64>,      *)
(* DecodeRef<[u8]>, DecodeRef<str>) over the frame decoder's field          *)
(* primitives and the variable-length integer codec.                        *)
(***************************************************************************)
\* the result of a decoding step: its outcome, the value, the input left unread
Decoded(value, rest) == [result |-> "Ok", value |-> value, input |-> rest]

Failed(kind, rest) == [result |-> kind, value |-> <<>>, input |-> rest]

\* u8::trailing_zeros
RECURSIVE trailing_zeros(_)
trailing_zeros(b) ==
    IF b = 0 THEN 8 ELSE IF b % 2 = 1 THEN 0 ELSE 1 + trailing_zeros(b \div 2)

\* u64::from_le_bytes of the bytes given
RECURSIVE from_le_bytes(_)
from_le_bytes(bytes) ==
    IF bytes = <<>> THEN 0 ELSE Head(bytes) + 256 * from_le_bytes(Tail(bytes))

\* vint64::decode: the trailing zeros of the first byte count the bytes that
\* follow it; the value is the little-endian number above the length marker
vint64_decode(inp) ==
    IF inp = <<>> THEN Failed("TruncatedInput", inp)
    ELSE LET length == trailing_zeros(inp[1]) + 1 IN
        IF Len(inp) < length THEN Failed("TruncatedInput", inp)
        ELSE LET rest == SubSeq(inp, length + 1, Len(inp)) IN
            IF length = 9 THEN Decoded(from_le_bytes(SubSeq(inp, 2, 9)), rest)
            ELSE Decoded(from_le_bytes(SubSeq(inp, 1, length)) \div (2 ^ length), rest)

\* vint64::encode: the shortest form, of one to three bytes
vint64_encode(value) ==
    LET length == IF value < 2 ^ 7 THEN 1 ELSE IF value < 2 ^ 14 THEN 2 ELSE 3
        marked == value * (2 ^ length) + 2 ^ (length - 1)
    IN  [i \in 1..length |-> (marked \div (256 ^ (i - 1))) % 256]

\* WireType::from_unsigned / to_unsigned: the low three bits of a header
WireTypeCode ==
    [UInt64 |-> 2, SInt64 |-> 3, Bytes |-> 4, String |-> 5, Message |-> 6, Sequence |-> 7]

\* Header::from: the tag above the wire type and the critical bit
Header_decode(v) ==
    IF \E w \in WireType : WireTypeCode[w] = v % 8
    THEN [result |-> "Ok", tag |-> v \div 16,
          wire_type |-> CHOOSE w \in WireType : WireTypeCode[w] = v % 8]
    ELSE [result |-> "InvalidVarint", tag |-> v \div 16, wire_type |-> "none"]

Header_encode(tag, wire_type) == vint64_encode(tag * 16 + WireTypeCode[wire_type])

\* message::Decoder::expect_header: the next header must carry the tag and the
\* wire type asked for
expect_header(inp, tag, wire_type) ==
    LET v == vint64_decode(inp) IN
    IF v.result # "Ok" THEN v
    ELSE LET header == Header_decode(v.value) IN
        IF header.result # "Ok" THEN Failed(header.result, v.input)
        ELSE IF header.tag # tag \/ header.wire_type # wire_type
             THEN Failed("HeaderMismatch", v.input)
             ELSE Decoded(header, v.input)

\* message::Decoder::decode_uint64
decode_uint64(inp) == vint64_decode(inp)

\* the zigzag inverse: even n to n / 2, odd n to -(n + 1) / 2
zigzag_decode(n) == IF n % 2 = 0 THEN n \div 2 ELSE 0 - ((n + 1) \div 2)

zigzag_encode(n) == IF n >= 0 THEN 2 * n ELSE (0 - 2 * n) - 1

\* message::Decoder::decode_sint64
decode_sint64(inp) ==
    LET v == vint64_decode(inp) IN
    IF v.result # "Ok" THEN v ELSE Decoded(zigzag_decode(v.value), v.input)

\* message::Decoder::decode_bytes: the declared length, then a view of that
\* many bytes of the input
decode_bytes(inp) ==
    LET length == vint64_decode(inp) IN
    IF length.result # "Ok" THEN length
    ELSE IF Len(length.input) < length.value THEN Failed("TruncatedInput", length.input)
    ELSE Decoded(SubSeq(length.input, 1, length.value),
                 SubSeq(length.input, length.value + 1, Len(length.input)))

\* core::str::from_utf8(bytes).is_ok()
RECURSIVE from_utf8(_)
from_utf8(b) ==
    IF b = <<>> THEN TRUE
    ELSE LET c == b[1]
             n == IF c < 128 THEN 1
                  ELSE IF c \in 194..223 THEN 2
                  ELSE IF c \in 224..239 THEN 3
                  ELSE IF c \in 240..244 THEN 4 ELSE 0
             lo == IF c = 224 THEN 160 ELSE IF c = 240 THEN 144 ELSE 128
             hi == IF c = 237 THEN 159 ELSE IF c = 244 THEN 143 ELSE 191
         IN  /\ n > 0
             /\ Len(b) >= n
             /\ (n >= 2 => b[2] \in lo..hi)
             /\ \A i \in 3..n : b[i] \in 128..191
             /\ from_utf8(SubSeq(b, n + 1, Len(b)))

\* message::Decoder::decode_string: the bytes of decode_bytes, validated as text
decode_string(inp) ==
    LET bytes == decode_bytes(inp) IN
    IF bytes.result # "Ok" THEN bytes
    ELSE IF from_utf8(bytes.value) THEN bytes ELSE Failed("InvalidText", bytes.input)

\* Decode<i64>::decode without the zigzag inverse
Decode_i64_decode_unsigned(s, tag, inp) ==
    IF peek(s).result = "panic" THEN Failed("panic", inp)
    ELSE LET header == expect_header(inp, tag, "SInt64") IN
        IF header.result # "Ok" THEN header ELSE decode_uint64(header.input)

\* Decode<u64>::decode
Decode_u64_decode(s, tag, inp) ==
    IF peek(s).result = "panic" THEN Failed("panic", inp)
    ELSE LET header == expect_header(inp, tag, "UInt64") IN
        IF header.result # "Ok" THEN header ELSE decode_uint64(header.input)

\* Decode<i64>::decode
Decode_i64_decode(s, tag, inp) ==
    IF peek(s).result = "panic" THEN Failed("panic", inp)
    ELSE LET header == expect_header(inp, tag, "SInt64") IN
        IF header.result # "Ok" THEN header ELSE decode_sint64(header.input)

\* DecodeRef<[u8]>::decode_ref
DecodeRef_bytes_decode_ref(s, tag, inp) ==
    IF peek(s).result = "panic" THEN Failed("panic", inp)
    ELSE LET header == expect_header(inp, tag, "Bytes") IN
        IF header.result # "Ok" THEN header ELSE decode_bytes(header.input)

\* DecodeRef<str>::decode_ref
DecodeRef_str_decode_ref(s, tag, inp) ==
    IF peek(s).result = "panic" THEN Failed("panic", inp)
    ELSE LET header == expect_header(inp, tag, "String") IN
        IF header.result # "Ok" THEN header ELSE decode_string(header.input)

\* the tags asked for and encoded
TypedTags == {2, 4, 42, 43}

\* unsigned values of one and of two encoded bytes
TypedU64Vals == {0, 42, 300}

\* signed values of both signs, of one and of two encoded bytes
TypedI64Vals == {-42, -1, 0, 100}

\* well-formed text: "", "baz", and one two-byte character
TextVals == {<<>>, <<98, 97, 122>>, <<195, 169>>}

\* byte payloads: the texts, "bytes", and a byte that is not text
BytesVals == TextVals \cup {<<98, 121, 116, 101, 115>>, <<255>>}

\* one encoded field: its header, then the value (scalar) or the length and the payload
Field(tag, wire_type, v) ==
    Header_encode(tag, wire_type) \o
        (CASE wire_type = "UInt64" -> vint64_encode(v)
           [] wire_type = "SInt64" -> vint64_encode(zigzag_encode(v))
           [] OTHER -> vint64_encode(Len(v)) \o v)

Fields ==
    UNION {{Field(tag, "UInt64", v) : v \in TypedU64Vals}
             \cup {Field(tag, "SInt64", v) : v \in TypedI64Vals}
             \cup {Field(tag, w, v) : w \in {"Bytes", "String", "Message"}, v \in BytesVals}
           : tag \in TypedTags}

\* what follows the field in the buffer: nothing, or one more byte
Trailing == {<<>>, <<7>>}

\* the inputs of the tests of decoder.rs
TestBuffers ==
    {<<138, 10, 85>>, <<206, 10, 167>>, <<73, 11, 98, 121, 116, 101, 115>>,
     <<139, 7, 98, 97, 122>>}

\* the buffers decoded: whole fields, fields cut short, and the tests' inputs
Buffers ==
    {f \o t : f \in Fields, t \in Trailing}
        \cup UNION {{SubSeq(f, 1, n) : n \in 0..(Len(f) - 1)} : f \in Fields}
        \cup TestBuffers

NoDecode == [op |-> "none", tag |-> 0, buffer |-> <<>>, result |-> "none", value |-> <<>>]

TypedOutcome(op, tag, r) ==
    [op |-> op, tag |-> tag, buffer |-> cursor, result |-> r.result, value |-> r.value]

\* no typed decode is made
TypedIdle == cursor = <<>> /\ typed = NoDecode

\* `let mut input_ref = &input[..]` before `Decoder::new().decode(..)`
TypedInit == cursor \in Buffers /\ typed = NoDecode

DecodeU64 ==
    \E tag \in TypedTags :
        /\ typed.op = "none"
        /\ LET r == Decode_u64_decode(stack, tag, cursor) IN
            /\ cursor' = r.input
            /\ typed' = TypedOutcome("u64", tag, r)
        /\ UNCHANGED decoderVars /\ UNCHANGED hasherVars

DecodeI64 ==
    \E tag \in TypedTags :
        /\ typed.op = "none"
        /\ LET r == Decode_i64_decode(stack, tag, cursor) IN
            /\ cursor' = r.input
            /\ typed' = TypedOutcome("i64", tag, r)
        /\ UNCHANGED decoderVars /\ UNCHANGED hasherVars

DecodeRefBytes ==
    \E tag \in TypedTags :
        /\ typed.op = "none"
        /\ LET r == DecodeRef_bytes_decode_ref(stack, tag, cursor) IN
            /\ cursor' = r.input
            /\ typed' = TypedOutcome("bytes", tag, r)
        /\ UNCHANGED decoderVars /\ UNCHANGED hasherVars

DecodeRefStr ==
    \E tag \in TypedTags :
        /\ typed.op = "none"
        /\ LET r == DecodeRef_str_decode_ref(stack, tag, cursor) IN
            /\ cursor' = r.input
            /\ typed' = TypedOutcome("str", tag, r)
        /\ UNCHANGED decoderVars /\ UNCHANGED hasherVars

(***************************************************************************)
(* Specifications                                                          *)
(***************************************************************************)
NextDecoder == Push \/ Pop \/ DecodeMessageCall \/ DecodeMessageReturn

NextHasher == HashLengthDelimiter \/ HashFixedSizedValue \/ HashValueChunk \/ HashHeader

NextTyped == DecodeU64 \/ DecodeI64 \/ DecodeRefBytes \/ DecodeRefStr

\* the decoder stack alone, beside a hasher that is never fed
InitDecoder == DecoderInit /\ HasherInit /\ overflow_checks /\ TypedIdle

\* the sequence hasher alone, beside a decoder that is never called
InitHasher == DecoderInit /\ HasherInit /\ TypedIdle

\* one typed decode of a field by a new decoder, beside a hasher that is never fed
InitTyped == DecoderInit /\ HasherInit /\ overflow_checks /\ TypedInit

SpecDecoder == InitDecoder /\ [][NextDecoder]_vars

SpecHasher == InitHasher /\ [][NextHasher]_vars

SpecTyped == InitTyped /\ [][NextTyped]_vars

Init == DecoderInit /\ HasherInit /\ TypedInit

Next == NextDecoder \/ NextHasher \/ NextTyped

Spec == Init /\ [][Next]_vars

(***************************************************************************)
(* Properties of the decoder stack (specification SpecDecoder)            *)
(***************************************************************************)
\* C1: every nested-message decode that returns an error, whichever step failed
\* (header check, region extraction, push, or the nested M::decode), leaves the
\* stack depth what it was before the call.
C1_BalancedOnFailure ==
    (ret.op = "decode" /\ ret.result \notin {"Ok", "panic"}) => ret.after = ret.before

\* C3: the depth is at most 16 in every reachable state, and a push() issued at
\* depth 16 fails with NestingDepth and leaves the depth at 16.
C3_DepthBound ==
    /\ depth <= U16
    /\ (ret.op = "push" /\ ret.before = U16) =>
            (ret.result = "NestingDepth" /\ ret.after = U16 /\ depth = U16)

C3_Witness == ret.op = "push" /\ ret.before = U16 /\ ret.result = "NestingDepth"

\* C4: pop() called when the stack holds only the root frame panics: it does not
\* return normally and does not leave the stack empty.
C4_PopRootIsFatal ==
    (ret.op = "pop" /\ ret.before = 1) => (ret.result = "panic" /\ depth # 0)

\* C5: a nested-message decode attempted at depth 16 returns an error without
\* invoking the nested type's decode routine and without panicking, the depth stays
\* 16, and for input that does hold a nested message (header check and region
\* extraction pass) the error is NestingDepth.
C5_NestingIsReportable ==
    (ret.op \in {"decode", "enter"} /\ ret.before = U16) =>
        /\ ~ret.invoked
        /\ ret.op = "decode"
        /\ ret.result \notin {"Ok", "panic"}
        /\ ret.after = U16
        /\ depth = U16
        /\ (ret.header = "Ok" /\ ret.region = "Ok") => ret.result = "NestingDepth"

\* 15 nested messages are open and the 16th nested decode is refused
C5_Witness ==
    /\ ret.op = "decode" /\ ret.before = U16 /\ ret.result = "NestingDepth"
    /\ Len(calls) = U16 - 1

\* C15: a nested-message decode that succeeds pushes exactly one frame before it
\* invokes the nested type's decode routine, which runs at depth d + 1, and pops
\* exactly one frame after that routine returns; as long as every nested decode
\* succeeds, the depth after the call is again the depth d at the call.
C15_BalancedOnSuccess ==
    /\ \A i \in 1..Len(calls) : calls[i].at = calls[i].before + 1
    /\ (ret.op = "decode" /\ ret.invoked /\ ret.result = "Ok")
            => (ret.at = ret.before + 1 /\ ret.after = ret.inner - 1)
    /\ ~leaked =>
            /\ calls # <<>> => depth = calls[Len(calls)].at
            /\ (ret.op = "decode" /\ ret.invoked /\ ret.result = "Ok")
                    => ret.after = ret.before

\* the innermost of 15 nested messages has been decoded and its frame popped
C15_Witness ==
    /\ ret.op = "decode" /\ ret.invoked /\ ret.result = "Ok"
    /\ ~leaked
    /\ ret.before = U16 - 1 /\ ret.after = U16 - 1
    /\ Len(calls) = U16 - 2

(***************************************************************************)
(* Properties of the typed scalar decodes (specification SpecTyped)         *)
(***************************************************************************)
\* the wire type each typed decode asks the header for
TypedWire == [u64 |-> "UInt64", i64 |-> "SInt64", bytes |-> "Bytes", str |-> "String"]

\* the values a field of that type can hold here
TypedValues(op) ==
    CASE op = "u64" -> TypedU64Vals
      [] op = "i64" -> TypedI64Vals
      [] op = "bytes" -> BytesVals
      [] op = "str" -> TextVals

TypedReturned(op, tag, buffer, value, rest) ==
    (typed.op = op /\ typed.tag = tag /\ typed.buffer = buffer)
        => (typed.result = "Ok" /\ typed.value = value /\ cursor = rest)

\* C14: a typed decode of a buffer that begins with one field whose header
\* carries the requested tag and the wire type of the requested result type
\* returns the encoded value and leaves the cursor just past that field (empty
\* when the buffer holds exactly the field), as for the four inputs of the tests.
C14_TypedDecode ==
    /\ typed.op # "none" =>
            \A v \in TypedValues(typed.op), t \in Trailing :
                TypedReturned(typed.op, typed.tag,
                              Field(typed.tag, TypedWire[typed.op], v) \o t, v, t)
    /\ TypedReturned("u64", 42, <<138, 10, 85>>, 42, <<>>)
    /\ TypedReturned("i64", 43, <<206, 10, 167>>, 0 - 42, <<>>)
    /\ TypedReturned("bytes", 2, <<73, 11, 98, 121, 116, 101, 115>>,
                     <<98, 121, 116, 101, 115>>, <<>>)
    /\ TypedReturned("str", 4, <<139, 7, 98, 97, 122>>, <<98, 97, 122>>, <<>>)

\* [206, 10, 167] has been decoded as a signed integer at tag 43
C14_Witness ==
    /\ typed.op = "i64" /\ typed.tag = 43 /\ typed.buffer = <<206, 10, 167>>
    /\ typed.result = "Ok" /\ typed.value = 0 - 42
    /\ cursor = <<>>

(***************************************************************************)
(* Properties of the sequence hasher (specification SpecHasher)           *)
(***************************************************************************)
InProgressTags == {"Bytes", "String", "Message"}

\* C2: once a hash_event call has returned Hashing, every later call on the same
\* hasher returns Failed (never Ok, never Hashing), and the hasher holds no state.
C2_Poisoning ==
    /\ \A i \in 1..Len(results) :
            results[i] = "Hashing" =>
                \A j \in (i + 1)..Len(results) : results[j] = "Failed"
    /\ (\E i \in 1..Len(results) : results[i] = "Hashing") => state = None

C2_Witness ==
    /\ Len(results) >= 3
    /\ results[Len(results) - 2] = "Hashing"
    /\ results[Len(results) - 1] = "Failed"
    /\ last.result = "Failed"

\* the payload bytes a run of accumulator calls absorbs: the concatenation of the
\* slices passed to input
RECURSIVE Absorbed(_)
Absorbed(commits) ==
    IF commits = <<>> THEN <<>>
    ELSE IF Head(commits).op = "input"
         THEN Head(commits).bytes \o Absorbed(Tail(commits))
         ELSE Absorbed(Tail(commits))

\* C6: a ValueChunk whose wire type matches the value in progress (Bytes, String
\* or Message) and whose remaining arithmetic is right is accepted and its bytes
\* are absorbed into the accumulator.
C6_ChunkAbsorbed ==
    (/\ last.event.kind = "ValueChunk"
     /\ last.pre.tag \in InProgressTags
     /\ last.event.wire_type = last.pre.tag
     /\ Len(last.event.bytes) <= last.pre.remaining
     /\ last.event.remaining = last.pre.remaining - Len(last.event.bytes))
        => (/\ last.result = "Ok"
            /\ Absorbed(last.commits) = last.event.bytes)

\* C7: in state Bytes/String/Message{remaining = r}, a ValueChunk of the matching
\* wire type with n bytes and declared remaining m is accepted only if n <= r and
\* m = r - n; every other combination is rejected with Hashing and poisons the
\* hasher.
C7_RemainingArithmetic ==
    (/\ last.event.kind = "ValueChunk"
     /\ last.pre.tag \in InProgressTags
     /\ last.event.wire_type = last.pre.tag)
        => IF /\ Len(last.event.bytes) <= last.pre.remaining
              /\ last.event.remaining = last.pre.remaining - Len(last.event.bytes)
           THEN last.result = "Ok"
           ELSE last.result = "Hashing" /\ state = None

\* C8: a LengthDelimiter of wire type UInt64, SInt64 or Sequence received in state
\* Initial is rejected with Hashing, poisons the hasher and commits nothing.
C8_BadLengthDelimiter ==
    (/\ last.event.kind = "LengthDelimiter"
     /\ last.pre = Initial
     /\ last.event.wire_type \in {"UInt64", "SInt64", "Sequence"})
        => (last.result = "Hashing" /\ state = None /\ last.commits = <<>>)

\* C9: a ValueChunk received in state Initial is rejected with Hashing, whatever
\* its wire type, bytes and remaining, and leaves the hasher poisoned.
C9_ChunkWhileInitial ==
    (last.event.kind = "ValueChunk" /\ last.pre = Initial)
        => (last.result = "Hashing" /\ state = None /\ last.commits = <<>>)

C9_Witness ==
    /\ last.event.kind = "ValueChunk" /\ last.pre = Initial
    /\ last.result = "Hashing" /\ state = None

\* C10: while a value is in progress, every event that is not a ValueChunk of the
\* same wire type (Header, LengthDelimiter, UInt64, SInt64, ValueChunk of another
\* wire type) is rejected with Hashing and poisons the hasher.
C10_EventMidValue ==
    (/\ last.pre.tag \in InProgressTags
     /\ ~(last.event.kind = "ValueChunk" /\ last.event.wire_type = last.pre.tag))
        => (last.result = "Hashing" /\ state = None)

C10_Witness ==
    /\ last.pre.tag \in InProgressTags
    /\ last.event.kind = "Header"
    /\ last.result = "Hashing" /\ state = None

\* total number of bytes in a sequence of byte slices
RECURSIVE SumLen(_)
SumLen(chunks) == IF chunks = <<>> THEN 0 ELSE Len(Head(chunks)) + SumLen(Tail(chunks))

\* the accumulator calls a value of the given wire type, declared length and
\* chunks is to produce: one size commit, then one payload absorb per chunk
ValueCommits(wire_type, length, chunks) ==
    <<[op |-> "dynamically_sized_value", wire_type |-> wire_type, length |-> length]>>
        \o [i \in 1..Len(chunks) |-> [op |-> "input", bytes |-> chunks[i]]]

\* C11: from Initial, a LengthDelimiter{Bytes or String, L > 0} followed by
\* ValueChunks of that wire type whose lengths sum to L and whose declared
\* remaining is each time the previous remaining minus the chunk length is accepted
\* without error; the accumulator receives one size commit (wire_type, L) at the
\* LengthDelimiter, then one payload absorb per chunk in order, and the hasher is
\* back in Initial exactly when L bytes have been accepted.
C11_WellFormedValue ==
    /\ (/\ last.event.kind = "LengthDelimiter"
        /\ last.pre = Initial
        /\ last.event.wire_type \in {"Bytes", "String"}
        /\ last.event.length > 0)
            => /\ last.result = "Ok"
               /\ state = InProgress(last.event.wire_type, last.event.length)
               /\ last.commits = ValueCommits(last.event.wire_type, last.event.length, <<>>)
    /\ (/\ last.event.kind = "ValueChunk"
        /\ last.pre.tag \in {"Bytes", "String"}
        /\ last.event.wire_type = last.pre.tag
        /\ Len(last.event.bytes) <= last.pre.remaining
        /\ last.event.remaining = last.pre.remaining - Len(last.event.bytes))
            => /\ last.result = "Ok"
               /\ last.commits = <<[op |-> "input", bytes |-> last.event.bytes]>>
               /\ state = IF last.event.remaining = 0 THEN Initial
                          ELSE InProgress(last.pre.tag, last.event.remaining)
    /\ (/\ last.result = "Ok"
        /\ last.event.kind \in {"LengthDelimiter", "ValueChunk"}
        /\ progress.wire_type \in {"Bytes", "String"}
        /\ progress.length > 0
        /\ SumLen(progress.chunks) <= progress.length)
            => /\ SubSeq(verihash, progress.mark + 1, Len(verihash))
                    = ValueCommits(progress.wire_type, progress.length, progress.chunks)
               /\ state = IF SumLen(progress.chunks) = progress.length THEN Initial
                          ELSE InProgress(progress.wire_type,
                                          progress.length - SumLen(progress.chunks))

\* a value of two bytes hashed in two chunks of one byte
C11_Witness ==
    /\ results = <<"Ok", "Ok", "Ok">>
    /\ progress.wire_type = "Bytes" /\ progress.length = 2
    /\ progress.chunks = <<(<<255>>), (<<255>>)>>
    /\ Len(verihash) = 3
    /\ state = Initial

\* the 8-byte little-endian two's complement representation of the values the
\* fixed-size events carry, written out
LittleEndian8(v) ==
    CASE v = 0 -> <<0, 0, 0, 0, 0, 0, 0, 0>>
      [] v = 2 -> <<2, 0, 0, 0, 0, 0, 0, 0>>
      [] v = 258 -> <<2, 1, 0, 0, 0, 0, 0, 0>>
      [] v = -1 -> <<255, 255, 255, 255, 255, 255, 255, 255>>

\* C12: a UInt64 or SInt64 event received in Initial is accepted, commits exactly
\* one fixed-size value (its wire type and the 8 little-endian bytes of its value)
\* and leaves the state Initial.
C12_FixedSizedValue ==
    (last.event.kind \in {"UInt64", "SInt64"} /\ last.pre = Initial)
        => /\ last.result = "Ok"
           /\ state = Initial
           /\ last.commits = <<[op |-> "fixed_size_value",
                                wire_type |-> last.event.kind,
                                bytes |-> LittleEndian8(last.event.value)]>>

\* three fixed-size events in a row, the last one SInt64(-1)
C12_Witness ==
    /\ results = <<"Ok", "Ok", "Ok">>
    /\ Len(verihash) = 3
    /\ \A i \in 1..3 : verihash[i].op = "fixed_size_value"
    /\ last.event = [kind |-> "SInt64", value |-> -1]
    /\ state = Initial

\* C16: a hash_event call that returns an error (Hashing or Failed) issues no call
\* to the accumulator.
C16_RejectionCommitsNothing ==
    (last.result \in {"Hashing", "Failed"}) => last.commits = <<>>

\* an event rejected after the accumulator has received commits
C16_Witness ==
    /\ last.result = "Hashing"
    /\ last.pre.tag \in InProgressTags
    /\ verihash # <<>>
    /\ last.commits = <<>>

\* C17: in every non-failed state with a value in progress, the declared length
\* equals the remaining counter plus the bytes of the chunks accepted so far, and
\* a chunk returns the hasher to Initial only when exactly the declared number of
\* bytes has been accepted.
C17_ByteAccounting ==
    /\ state.tag \in InProgressTags
            => progress.length = state.remaining + SumLen(progress.chunks)
    /\ (last.event.kind = "ValueChunk" /\ last.result = "Ok" /\ state = Initial)
            => SumLen(progress.chunks) = progress.length

\* C18 as stated: in every reachable in-progress state the remaining counter is
\* at least 1.
C18_RemainingPositive ==
    state.tag \in InProgressTags => state.remaining >= 1

\* C18: in every reachable in-progress state the remaining counter is at least 1,
\* except right after a LengthDelimiter that declared length 0, which installs
\* the variant with remaining 0; an accepted chunk whose remaining reaches zero
\* leaves the hasher in Initial.
C18_RemainingPositiveAfterChunk ==
    /\ (state.tag \in InProgressTags /\ state.remaining = 0)
            => /\ last.event.kind = "LengthDelimiter"
               /\ last.event.length = 0
               /\ last.result = "Ok"
    /\ (last.event.kind = "ValueChunk" /\ last.result = "Ok" /\ last.event.remaining = 0)
            => state = Initial

\* a chunk was accepted and the value is still in progress
C18_Witness ==
    /\ last.event.kind = "ValueChunk" /\ last.result = "Ok"
    /\ state.tag \in InProgressTags
    /\ state.remaining >= 1

\* C19: a Header event is rejected with Hashing in every non-failed state, Initial
\* included, and leaves the hasher poisoned with nothing committed.
C19_HeaderRejected ==
    (last.event.kind = "Header" /\ last.pre # None)
        => (last.result = "Hashing" /\ state = None /\ last.commits = <<>>)

\* a Header rejected by a hasher that is between values, after a fixed-size value
C19_Witness ==
    /\ last.event.kind = "Header" /\ last.pre = Initial
    /\ last.result = "Hashing" /\ state = None
    /\ Len(results) >= 2

====
